---- MODULE Spec2Model ----
(***************************************************************************)
(* The shopping-cart state container of the storefront                     *)
(* (CartProvider, src/frontend/src/App.js:16-74; the same addToCart and    *)
(* getTotalItems are repeated in PremiumCartProvider,                      *)
(* src/unnamed/part_001:10-36).                                            *)
(*                                                                         *)
(* cartItems is the React state of the provider: an array of lines, each   *)
(* the product object spread with a quantity.  A line is modelled by the   *)
(* three fields the cart logic reads: id, price, quantity.  Every cart     *)
(* operation is one setCartItems call; each action below is one handler    *)
(* call together with the re-render that commits its state update.         *)
(***************************************************************************)
EXTENDS Integers, Sequences, FiniteSets

(* ---- bounds of the model ---- *)

\* largest quantity a caller passes to addToCart
MaxAdd == 3

\* largest magnitude of a non-positive quantity passed to addToCart/updateQuantity
MaxNeg == 1

\* cap on the total quantity in the cart (the code enforces none)
MaxQty == 5

(* ---- inputs ---- *)

\* product objects as fetched from GET /products; product "a" is listed with
\* two prices (its catalog price changed between two fetches)
Products ==
    { [id |-> "a", price |-> 10],
      [id |-> "a", price |-> 25],
      [id |-> "b", price |-> 25],
      [id |-> "c", price |-> 7] }

ProductIds == { p.id : p \in Products }

AddQuantities == (0 - MaxNeg)..MaxAdd

SetQuantities == (0 - MaxNeg)..MaxQty

VARIABLES
    cartItems,   \* useState([]) of CartProvider
    lastOp,      \* history: the last cart operation called and its arguments
    prevCart,    \* history: cartItems before the last operation
    addsOnly,    \* history: only addToCart was called since the cart was created/cleared
    sumAdded,    \* history: sum of the quantities passed to those addToCart calls
    firstPrice,  \* history: per product id, the price of the product when its line was created
    pending,     \* the updates passed to setCartItems that no render has applied yet
    expected,    \* history: the cart after applying every call so far, one at a time, in call order
    committed,   \* history: how many updates the last render applied
    location,    \* the route the router renders
    loading,     \* useState(false) of the mounted Checkout
    subs,        \* the runs of Checkout.handleSubmit, in the order they started, each
                 \* with the POST /orders calls it issued and their outcome
    alerts,      \* how many times alert('Failed to place order...') was shown
    lastStep,    \* history: the last step of the storefront and the state before it
    csvText,     \* e.target.result: the content of the file read
    csvDone,     \* the parse loop of reader.onload has run
    csvRows,     \* data: the rows built by the parse loop
    importing,   \* ImportExport state importing
    importResults, \* ImportExport state importResults
    uploads,     \* the files selected so far: content, progress, POSTs issued
    rejections,  \* promises rejected with no handler
    importType,  \* ImportExport state importType
    supplierType, \* ImportExport state supplierType
    suppliers,   \* SupplierManagement state suppliers (ids of the listed suppliers)
    backend,     \* the suppliers the backend holds (ids)
    showForm,    \* SupplierManagement state showForm
    editingSupplier, \* SupplierManagement state editingSupplier (0 for null)
    formData,    \* SupplierManagement state formData: name and settings
    requests,    \* requests of SupplierManagement that are in flight
    openedBy,    \* history: the action that opened the form
    lastForm,    \* history: the last step of the supplier page and the state before it
    trail,       \* the routes opened since the app was loaded, oldest first
    currentSlide,  \* useState(0) of the premium storefront: the slide shown
    slideUpdates,  \* the updates passed to setCurrentSlide that no render has applied yet
    lastSlides   \* history: the slide before the last render and the updates it applied

\* the history of the cart operations
cartHist == <<lastOp, prevCart, addsOnly, sumAdded, firstPrice>>

\* the update queue of the cartItems state
batchVars == <<pending, expected, committed>>

\* the router and the Checkout view
checkoutVars == <<location, loading, subs, alerts, lastStep>>

\* the CSV parse of reader.onload
csvVars == <<csvText, csvDone, csvRows>>

\* the import page
importVars == <<importing, importResults, uploads, rejections, importType, supplierType>>

\* the supplier page
supplierVars ==
    <<suppliers, backend, showForm, editingSupplier, formData, requests, openedBy, lastForm>>

\* the history of routes
navVars == <<trail>>

\* the hero slideshow
slideVars == <<currentSlide, slideUpdates, lastSlides>>

vars ==
    <<cartItems, cartHist, batchVars, checkoutVars, csvVars, importVars, supplierVars,
      navVars, slideVars>>

\* what the cart operations of CartProvider leave alone
notCart == <<batchVars, checkoutVars, csvVars, importVars, supplierVars, navVars, slideVars>>

\* what the calls and renders of SpecBatch leave alone
notBatch == <<cartHist, checkoutVars, csvVars, importVars, supplierVars, navVars, slideVars>>

\* what the storefront steps of SpecCheckout leave alone
notCheckout == <<cartHist, batchVars, csvVars, importVars, supplierVars, navVars, slideVars>>

notCsv == <<cartItems, cartHist, batchVars, checkoutVars, importVars, supplierVars, navVars, slideVars>>

notImport == <<cartItems, cartHist, batchVars, checkoutVars, csvVars, supplierVars, navVars, slideVars>>

\* what following links in the admin panel leaves alone
notNav ==
    <<cartItems, cartHist, batchVars, loading, subs, alerts, lastStep, csvVars,
      importVars, supplierVars, slideVars>>

notSlide ==
    <<cartItems, cartHist, batchVars, checkoutVars, csvVars, importVars, supplierVars,
      navVars>>

notSupplier == <<cartItems, cartHist, batchVars, checkoutVars, csvVars, importVars, navVars, slideVars>>

(* ---- helpers over the array ---- *)

\* prev.find(item => item.id === id) is truthy
Has(items, id) == \E i \in 1..Len(items) : items[i].id = id

(* ---- the state updaters of CartProvider ---- *)

\* variant of addToCart without the prev.find branch: always appends
addToCartAlwaysAppend(prev, product, quantity) ==
    Append(prev, [id |-> product.id, price |-> product.price, quantity |-> quantity])

\* variant of addToCart that assigns the quantity of an existing line
addToCartReplace(prev, product, quantity) ==
    IF Has(prev, product.id)
    THEN [i \in 1..Len(prev) |->
             IF prev[i].id = product.id
             THEN [prev[i] EXCEPT !.quantity = quantity]
             ELSE prev[i]]
    ELSE Append(prev, [id |-> product.id, price |-> product.price, quantity |-> quantity])

\* variant of addToCart that spreads the product over an existing line
addToCartSpreadProduct(prev, product, quantity) ==
    IF Has(prev, product.id)
    THEN [i \in 1..Len(prev) |->
             IF prev[i].id = product.id
             THEN [id |-> product.id, price |-> product.price,
                   quantity |-> prev[i].quantity + quantity]
             ELSE prev[i]]
    ELSE Append(prev, [id |-> product.id, price |-> product.price, quantity |-> quantity])

\* variant of addToCart that puts a new line in front: [{...product, quantity}, ...prev]
addToCartPrepend(prev, product, quantity) ==
    IF Has(prev, product.id)
    THEN [i \in 1..Len(prev) |->
             IF prev[i].id = product.id
             THEN [prev[i] EXCEPT !.quantity = prev[i].quantity + quantity]
             ELSE prev[i]]
    ELSE <<[id |-> product.id, price |-> product.price, quantity |-> quantity]>> \o prev

\* the updater passed to setCartItems by addToCart(product, quantity = 1)
addToCart(prev, product, quantity) ==
    IF Has(prev, product.id)
    THEN [i \in 1..Len(prev) |->
             IF prev[i].id = product.id
             THEN [prev[i] EXCEPT !.quantity = prev[i].quantity + quantity]
             ELSE prev[i]]
    ELSE Append(prev, [id |-> product.id, price |-> product.price, quantity |-> quantity])

\* variant of removeFromCart that drops the first line, whatever its id
removeFromCartFirst(prev, productId) ==
    IF prev = <<>> THEN prev ELSE Tail(prev)

\* the updater passed to setCartItems by removeFromCart(productId)
removeFromCart(prev, productId) ==
    SelectSeq(prev, LAMBDA item : item.id # productId)

\* variant of updateQuantity whose guard is quantity < 0
updateQuantityStrictGuard(prev, productId, quantity) ==
    IF quantity < 0
    THEN removeFromCart(prev, productId)
    ELSE [i \in 1..Len(prev) |->
             IF prev[i].id = productId
             THEN [prev[i] EXCEPT !.quantity = quantity]
             ELSE prev[i]]

\* variant of updateQuantity that adds to the quantity of the line
updateQuantityAdds(prev, productId, quantity) ==
    IF quantity <= 0
    THEN removeFromCart(prev, productId)
    ELSE [i \in 1..Len(prev) |->
             IF prev[i].id = productId
             THEN [prev[i] EXCEPT !.quantity = prev[i].quantity + quantity]
             ELSE prev[i]]

\* updateQuantity(productId, quantity): the early return through
\* removeFromCart, otherwise the map updater
updateQuantity(prev, productId, quantity) ==
    IF quantity <= 0
    THEN removeFromCart(prev, productId)
    ELSE [i \in 1..Len(prev) |->
             IF prev[i].id = productId
             THEN [prev[i] EXCEPT !.quantity = quantity]
             ELSE prev[i]]

\* variant of clearCart that keeps the first line
clearCartKeepsFirst(prev) ==
    IF prev = <<>> THEN <<>> ELSE <<Head(prev)>>

\* clearCart(): setCartItems([])
clearCart(prev) == <<>>

(* ---- derived totals ---- *)

\* variant of getTotalItems whose reduce stops before the last line
RECURSIVE getTotalItemsSkipsLast(_)
getTotalItemsSkipsLast(items) ==
    IF Len(items) <= 1 THEN 0
    ELSE getTotalItemsSkipsLast(SubSeq(items, 1, Len(items) - 1))
             + items[Len(items) - 1].quantity

\* cartItems.reduce((total, item) => total + item.quantity, 0)
RECURSIVE getTotalItems(_)
getTotalItems(items) ==
    IF items = <<>> THEN 0
    ELSE getTotalItems(SubSeq(items, 1, Len(items) - 1)) + items[Len(items)].quantity

\* variant of getTotalPrice that sums item.price alone
RECURSIVE getTotalPriceIgnoresQuantity(_)
getTotalPriceIgnoresQuantity(items) ==
    IF items = <<>> THEN 0
    ELSE getTotalPriceIgnoresQuantity(SubSeq(items, 1, Len(items) - 1))
             + items[Len(items)].price

\* cartItems.reduce((total, item) => total + (item.price * item.quantity), 0)
RECURSIVE getTotalPrice(_)
getTotalPrice(items) ==
    IF items = <<>> THEN 0
    ELSE getTotalPrice(SubSeq(items, 1, Len(items) - 1))
             + (items[Len(items)].price * items[Len(items)].quantity)

(* ---- initial state ---- *)

NoOp == [op |-> "none", id |-> "", price |-> 0, quantity |-> 0]

NoPrice == [id \in ProductIds |-> 0]

\* no cart operation called yet
InitCartHist ==
    /\ lastOp = NoOp
    /\ prevCart = <<>>
    /\ addsOnly = TRUE
    /\ sumAdded = 0
    /\ firstPrice = NoPrice

\* no update waiting for a render
InitBatch ==
    /\ pending = <<>>
    /\ expected = <<>>
    /\ committed = 0

NoStep ==
    [kind |-> "none", sub |-> 0, cart |-> <<>>, location |-> "/shop", alerts |-> 0,
     via |-> "/shop"]

\* the app opens on the shop (route "/"), no checkout submitted yet
InitCheckout ==
    /\ location = "/shop"
    /\ loading = FALSE
    /\ subs = <<>>
    /\ alerts = 0
    /\ lastStep = NoStep

\* no file read
InitCsv ==
    /\ csvText = <<>>
    /\ csvDone = FALSE
    /\ csvRows = <<>>

\* useState(false), useState(null); no file selected
InitImport ==
    /\ importing = FALSE
    /\ importResults = [kind |-> "null", upload |-> 0]
    /\ uploads = <<>>
    /\ rejections = 0
    /\ importType = "products"
    /\ supplierType = "cj_dropshipping"

\* formData of an empty form; settings is the object {}, not a text
BlankForm == [name |-> "", settings |-> "object"]

\* no step of the supplier page yet
NoFormStep ==
    [kind |-> "none", openedBy |-> "none", method |-> "", target |-> 0,
     showForm |-> FALSE, editingSupplier |-> 0, formData |-> BlankForm, requests |-> <<>>]

\* SupplierManagement mounted: the form closed and empty, the effect's
\* fetchSuppliers() in flight, no supplier on the backend yet
InitSupplier ==
    /\ suppliers = {}
    /\ backend = {}
    /\ showForm = FALSE
    /\ editingSupplier = 0
    /\ formData = BlankForm
    /\ requests = <<[kind |-> "get", id |-> 0]>>
    /\ openedBy = "none"
    /\ lastForm = NoFormStep

\* the app was loaded on the shop
InitNav == trail = <<"/shop">>

\* the first slide shown, nothing queued
InitSlide ==
    /\ currentSlide = 0
    /\ slideUpdates = <<>>
    /\ lastSlides = [before |-> 0, applied |-> <<>>]

Init ==
    /\ cartItems = <<>>
    /\ InitCartHist
    /\ InitBatch
    /\ InitCheckout
    /\ InitCsv
    /\ InitImport
    /\ InitSupplier
    /\ InitNav
    /\ InitSlide

(* ---- operations ---- *)

\* quantity of the line with this id, 0 when there is none
QuantityOf(items, id) ==
    IF Has(items, id)
    THEN (CHOOSE item \in { items[i] : i \in 1..Len(items) } : item.id = id).quantity
    ELSE 0

\* the history of line prices follows the lines that exist
TrackPrices(before, after, price) ==
    [id \in ProductIds |->
        IF ~ Has(after, id) THEN 0
        ELSE IF Has(before, id) THEN firstPrice[id]
        ELSE price]

\* addToCart(product, quantity).  The two guards only bound the model: a line
\* is followed down to quantity 0 (the code would go on below it) and the
\* cart up to MaxQty items in total.
AddToCart ==
    \E product \in Products, quantity \in AddQuantities :
        /\ QuantityOf(cartItems, product.id) + quantity >= 0
        /\ cartItems' = addToCart(cartItems, product, quantity)
        /\ getTotalItems(cartItems') <= MaxQty
        /\ lastOp' = [op |-> "add", id |-> product.id, price |-> product.price,
                      quantity |-> quantity]
        /\ prevCart' = cartItems
        /\ addsOnly' = addsOnly
        /\ sumAdded' = IF addsOnly THEN sumAdded + quantity ELSE 0
        /\ firstPrice' = TrackPrices(cartItems, cartItems', product.price)
        /\ UNCHANGED notCart

\* removeFromCart(productId)
RemoveFromCart ==
    \E productId \in ProductIds :
        /\ cartItems' = removeFromCart(cartItems, productId)
        /\ lastOp' = [op |-> "remove", id |-> productId, price |-> 0, quantity |-> 0]
        /\ prevCart' = cartItems
        /\ addsOnly' = FALSE
        /\ sumAdded' = 0
        /\ firstPrice' = TrackPrices(cartItems, cartItems', 0)
        /\ UNCHANGED notCart

\* updateQuantity(productId, quantity); the guard on the total bounds the model
UpdateQuantity ==
    \E productId \in ProductIds, quantity \in SetQuantities :
        /\ cartItems' = updateQuantity(cartItems, productId, quantity)
        /\ getTotalItems(cartItems') <= MaxQty
        /\ lastOp' = [op |-> "update", id |-> productId, price |-> 0,
                      quantity |-> quantity]
        /\ prevCart' = cartItems
        /\ addsOnly' = FALSE
        /\ sumAdded' = 0
        /\ firstPrice' = TrackPrices(cartItems, cartItems', 0)
        /\ UNCHANGED notCart

\* clearCart()
ClearCart ==
    /\ cartItems' = clearCart(cartItems)
    /\ lastOp' = [op |-> "clear", id |-> "", price |-> 0, quantity |-> 0]
    /\ prevCart' = cartItems
    /\ addsOnly' = TRUE
    /\ sumAdded' = 0
    /\ firstPrice' = TrackPrices(cartItems, cartItems', 0)
    /\ UNCHANGED notCart

Next ==
    \/ AddToCart
    \/ RemoveFromCart
    \/ UpdateQuantity
    \/ ClearCart

Spec == Init /\ [][Next]_vars

(* ---- the update queue of cartItems ---- *)
(* A cart operation only passes an update to setCartItems; React keeps the *)
(* updates of a state in a queue and applies them, in call order, when it  *)
(* next renders the provider.  SpecBatch separates the calls from the      *)
(* render, so that several calls can precede one render.                   *)

\* most updates waiting for one render
MaxPending == 2

\* the inputs of the calls of SpecBatch
BatchProducts == { p \in Products : p.price = 25 }

BatchIds == { p.id : p \in BatchProducts }

BatchAddQuantities == {1, 2}

BatchSetQuantities == {0, 3}

\* variant in which the updates are computed from the cartItems of the
\* render that created the handler, not from prev
ApplyUpdateFromClosure(update, prev, rendered) ==
    CASE update.op = "add" ->
             addToCart(rendered, [id |-> update.id, price |-> update.price],
                       update.quantity)
      [] update.op = "remove" -> removeFromCart(rendered, update.id)
      [] update.op = "update" -> updateQuantity(rendered, update.id, update.quantity)
      [] update.op = "clear" -> clearCart(rendered)

\* one queued update applied by React: the updaters are functions of prev
\* (setCartItems(prev => ...)) and clearCart passes the value []; none reads
\* the cartItems of the render that created the handler
ApplyUpdate(update, prev, rendered) ==
    CASE update.op = "add" ->
             addToCart(prev, [id |-> update.id, price |-> update.price],
                       update.quantity)
      [] update.op = "remove" -> removeFromCart(prev, update.id)
      [] update.op = "update" -> updateQuantity(prev, update.id, update.quantity)
      [] update.op = "clear" -> clearCart(prev)

\* the queue of a state applied in call order, each update on the result of
\* the one before it
RECURSIVE ReduceQueue(_, _, _)
ReduceQueue(queue, base, rendered) ==
    IF queue = <<>> THEN base
    ELSE ReduceQueue(Tail(queue), ApplyUpdate(Head(queue), base, rendered), rendered)

\* addToCart(product, quantity) called; the update waits for the render
CallAddToCart ==
    \E product \in BatchProducts, quantity \in BatchAddQuantities :
        /\ Len(pending) < MaxPending
        /\ pending' = Append(pending, [op |-> "add", id |-> product.id,
                                       price |-> product.price, quantity |-> quantity])
        /\ expected' = addToCart(expected, product, quantity)
        /\ getTotalItems(expected') <= MaxQty
        /\ UNCHANGED <<cartItems, committed, notBatch>>

\* removeFromCart(productId) called
CallRemoveFromCart ==
    \E productId \in BatchIds :
        /\ Len(pending) < MaxPending
        /\ pending' = Append(pending, [op |-> "remove", id |-> productId,
                                       price |-> 0, quantity |-> 0])
        /\ expected' = removeFromCart(expected, productId)
        /\ UNCHANGED <<cartItems, committed, notBatch>>

\* updateQuantity(productId, quantity) called
CallUpdateQuantity ==
    \E productId \in BatchIds, quantity \in BatchSetQuantities :
        /\ Len(pending) < MaxPending
        /\ pending' = Append(pending, [op |-> "update", id |-> productId,
                                       price |-> 0, quantity |-> quantity])
        /\ expected' = updateQuantity(expected, productId, quantity)
        /\ getTotalItems(expected') <= MaxQty
        /\ UNCHANGED <<cartItems, committed, notBatch>>

\* clearCart() called
CallClearCart ==
    /\ Len(pending) < MaxPending
    /\ pending' = Append(pending, [op |-> "clear", id |-> "", price |-> 0,
                                   quantity |-> 0])
    /\ expected' = clearCart(expected)
    /\ UNCHANGED <<cartItems, committed, notBatch>>

\* the provider renders: the queued updates become the new cartItems
Commit ==
    /\ pending # <<>>
    /\ cartItems' = ReduceQueue(pending, cartItems, cartItems)
    /\ committed' = Len(pending)
    /\ pending' = <<>>
    /\ UNCHANGED <<expected, notBatch>>

NextBatch ==
    \/ CallAddToCart
    \/ CallRemoveFromCart
    \/ CallUpdateQuantity
    \/ CallClearCart
    \/ Commit

SpecBatch == Init /\ [][NextBatch]_vars

(* ---- the quantity buttons of the cart view ---- *)

\* what one press asks for: the line's quantity changed by delta, the line
\* removed when that leaves nothing
StepQuantity(items, id, delta) ==
    IF ~ Has(items, id) THEN items
    ELSE updateQuantity(items, id, QuantityOf(items, id) + delta)

\* a product is added on the shop page and the cart view opened: the add is
\* rendered before any button of the cart view can be pressed
AddAndView ==
    \E product \in BatchProducts, quantity \in BatchAddQuantities :
        /\ pending = <<>>
        /\ cartItems' = addToCart(cartItems, product, quantity)
        /\ expected' = addToCart(expected, product, quantity)
        /\ getTotalItems(cartItems') <= MaxQty
        /\ getTotalItems(expected') <= MaxQty
        /\ UNCHANGED <<pending, committed, notBatch>>

\* the '+' button of a rendered line:
\* onClick={() => updateQuantity(item.id, item.quantity + 1)}, where item is
\* the line as the Cart last rendered it
PressPlus ==
    \E i \in 1..Len(cartItems) :
        /\ Len(pending) < MaxPending
        /\ pending' = Append(pending, [op |-> "update", id |-> cartItems[i].id,
                                       price |-> 0,
                                       quantity |-> cartItems[i].quantity + 1])
        /\ expected' = StepQuantity(expected, cartItems[i].id, 1)
        /\ getTotalItems(expected') <= MaxQty
        /\ cartItems[i].quantity < MaxQty
        /\ UNCHANGED <<cartItems, committed, notBatch>>

\* the '-' button of a rendered line:
\* onClick={() => updateQuantity(item.id, item.quantity - 1)}
PressMinus ==
    \E i \in 1..Len(cartItems) :
        /\ Len(pending) < MaxPending
        /\ pending' = Append(pending, [op |-> "update", id |-> cartItems[i].id,
                                       price |-> 0,
                                       quantity |-> cartItems[i].quantity - 1])
        /\ expected' = StepQuantity(expected, cartItems[i].id, 0 - 1)
        /\ UNCHANGED <<cartItems, committed, notBatch>>

NextPress ==
    \/ AddAndView
    \/ PressPlus
    \/ PressMinus
    \/ Commit

SpecPress == Init /\ [][NextPress]_vars

(* ---- the storefront: shop, cart page, checkout ---- *)
(* SpecCheckout follows a customer from the shop to the checkout.  A run   *)
(* of Checkout.handleSubmit is a record of subs: the cartItems its closure *)
(* iterates, the line whose POST /orders it awaits, the calls it issued    *)
(* and whether the Checkout that started it is still mounted.              *)
(* handleSubmit runs up to its next await in one step.  The customer fills *)
(* the cart before the first submission (a bound of the model).            *)

\* most items in the cart of a checkout
MaxCartItems == 3

\* most runs of handleSubmit
MaxAttempts == 2

\* the catalog shown by the shop: one price per product
ShopProducts == { p \in Products : p.price # 10 }

\* the links of a page: the header (shop, cart button) and the page's buttons;
\* the cart page shows its Checkout button only for a cart with lines, and
\* Checkout renders nothing for an empty cart
Links(loc, cart) ==
    CASE loc = "/shop" -> {"/cart"}
      [] loc = "/cart" -> {"/shop"} \cup (IF cart # <<>> THEN {"/checkout"} ELSE {})
      [] loc = "/checkout" -> IF cart # <<>> THEN {"/shop", "/cart"} ELSE {}
      [] loc = "/order-success" -> {"/shop", "/cart"}

\* variant of the order body with the unit price as total_amount
OrderPayloadUnitPrice(item) ==
    [product_id |-> item.id, quantity |-> item.quantity, total_amount |-> item.price]

\* the body of one POST /orders (customer_name and customer_email, the same
\* in every call of a run, are left out)
OrderPayload(item) ==
    [product_id |-> item.id,
     quantity |-> item.quantity,
     total_amount |-> item.price * item.quantity]

\* the call the loop issues for line k; it is pending until answered
IssuedPost(k, item) ==
    [line |-> k, body |-> OrderPayload(item), state |-> "pending"]

\* the pending call of a run gets its answer
Answered(log, outcome) ==
    [i \in 1..Len(log) |->
        IF log[i].state = "pending"
        THEN [log[i] EXCEPT !.state = outcome]
        ELSE log[i]]

\* the empty-cart check in the render of Checkout: navigate('/cart')
CheckoutRender(loc, cart) ==
    IF loc = "/checkout" /\ Len(cart) = 0 THEN "/cart" ELSE loc

\* the first render of a page: the navigate('/cart') of the empty-cart check
\* is called before Checkout has mounted, and useNavigate's function does
\* nothing until the component's first effect has run; Checkout returns null
FirstRender(loc, cart) == loc

\* variant of the end of a successful run without navigate('/order-success')
AfterOrdersPlacedNoNavigate(loc, cart, batched) ==
    [cart |-> clearCart(cart),
     via |-> loc,
     location |-> CheckoutRender(loc, clearCart(cart))]

\* the end of a successful run: clearCart(); navigate('/order-success').
\* Outside a batch React renders between the two calls, and a mounted
\* Checkout then runs its empty-cart check (via) before the second call.
AfterOrdersPlaced(loc, cart, batched) ==
    [cart |-> clearCart(cart),
     via |-> IF batched THEN loc ELSE CheckoutRender(loc, clearCart(cart)),
     location |-> "/order-success"]

\* variant of the catch block that only logs
ShowFailureLogOnly(shown) == shown

\* the catch block: console.error and alert('Failed to place order. Please try again.')
ShowFailure(shown) == shown + 1

\* a Checkout that is unmounted takes its runs' setLoading with it
Unmounted(runs) == [i \in 1..Len(runs) |-> [runs[i] EXCEPT !.live = FALSE]]

\* the history of a step: the end of a run is recorded with the state before it
StepBefore(kind, n) ==
    IF kind \in {"success", "failure"}
    THEN [kind |-> kind, sub |-> n, cart |-> cartItems, location |-> location,
          alerts |-> alerts, via |-> location]
    ELSE [kind |-> kind, sub |-> 0, cart |-> <<>>, location |-> "/shop", alerts |-> 0,
          via |-> "/shop"]

\* ProductCard.handleAddToCart: addToCart(product)
ShopAddToCart ==
    \E product \in ShopProducts :
        /\ location = "/shop"
        /\ subs = <<>>
        /\ cartItems' = addToCart(cartItems, product, 1)
        /\ getTotalItems(cartItems') <= MaxCartItems
        /\ lastStep' = StepBefore("add", 0)
        /\ UNCHANGED <<location, loading, subs, alerts, notCheckout>>

\* the customer follows a link; leaving the checkout unmounts Checkout
GoTo ==
    \E target \in Links(location, cartItems) :
        /\ location' = target
        /\ loading' = IF location = "/checkout" THEN FALSE ELSE loading
        /\ subs' = IF location = "/checkout" THEN Unmounted(subs) ELSE subs
        /\ lastStep' = StepBefore("nav", 0)
        /\ UNCHANGED <<cartItems, alerts, notCheckout>>

\* the form is submitted (the button is disabled while loading):
\* setLoading(true), then the loop issues the call of the first line
Submit ==
    /\ location = "/checkout"
    /\ cartItems # <<>>
    /\ ~ loading
    /\ Len(subs) < MaxAttempts
    /\ loading' = TRUE
    /\ subs' = Append(subs, [items |-> cartItems, idx |-> 1, status |-> "posting",
                             live |-> TRUE,
                             posts |-> <<IssuedPost(1, cartItems[1])>>])
    /\ lastStep' = StepBefore("submit", Len(subs) + 1)
    /\ UNCHANGED <<cartItems, location, alerts, notCheckout>>

\* the awaited call of a line before the last resolves: the loop issues the
\* call of the next line
PostSucceedsNext ==
    \E n \in 1..Len(subs) :
        /\ subs[n].status = "posting"
        /\ subs[n].idx < Len(subs[n].items)
        /\ subs' = [subs EXCEPT
                        ![n].idx = @ + 1,
                        ![n].posts = Append(Answered(@, "ok"),
                                            IssuedPost(subs[n].idx + 1,
                                                       subs[n].items[subs[n].idx + 1]))]
        /\ lastStep' = StepBefore("next", n)
        /\ UNCHANGED <<cartItems, location, loading, alerts, notCheckout>>

\* the awaited call of the last line resolves: clearCart(),
\* navigate('/order-success'), finally setLoading(false)
PostSucceedsLast ==
    \E n \in 1..Len(subs), batched \in BOOLEAN :
        /\ subs[n].status = "posting"
        /\ subs[n].idx = Len(subs[n].items)
        /\ cartItems' = AfterOrdersPlaced(location, cartItems, batched).cart
        /\ location' = AfterOrdersPlaced(location, cartItems, batched).location
        /\ subs' = LET done == [subs EXCEPT ![n].status = "succeeded",
                                             ![n].posts = Answered(@, "ok")]
                   IN  IF location = "/checkout" /\ location' # "/checkout"
                       THEN Unmounted(done) ELSE done
        /\ loading' = IF location' = "/checkout" /\ ~ subs[n].live THEN loading
                      ELSE FALSE
        /\ lastStep' = [StepBefore("success", n) EXCEPT
                            !.via = AfterOrdersPlaced(location, cartItems, batched).via]
        /\ UNCHANGED <<alerts, notCheckout>>

\* the browser's Back button on the order-success page that a run has just
\* opened: the history entry below is the page shown before
\* navigate('/order-success'), and its component mounts anew
BrowserBack ==
    /\ location = "/order-success"
    /\ lastStep.kind = "success"
    /\ location' = FirstRender(lastStep.via, cartItems)
    /\ lastStep' = StepBefore("back", 0)
    /\ UNCHANGED <<cartItems, loading, subs, alerts, notCheckout>>

\* the awaited call rejects: the catch block, finally setLoading(false)
PostFails ==
    \E n \in 1..Len(subs) :
        /\ subs[n].status = "posting"
        /\ subs' = [subs EXCEPT ![n].status = "failed",
                                 ![n].posts = Answered(@, "failed")]
        /\ alerts' = ShowFailure(alerts)
        /\ loading' = IF subs[n].live THEN FALSE ELSE loading
        /\ lastStep' = StepBefore("failure", n)
        /\ UNCHANGED <<cartItems, location, notCheckout>>

NextCheckout ==
    \/ ShopAddToCart
    \/ GoTo
    \/ Submit
    \/ PostSucceedsNext
    \/ PostSucceedsLast
    \/ PostFails
    \/ BrowserBack

SpecCheckout == Init /\ [][NextCheckout]_vars

(* ---- the CSV parse of the import (ImportExport.handleFileUpload) ---- *)
(* A text is a sequence of characters.  The characters that matter to the  *)
(* parse are the comma, the newline, the double quote and white space; any *)
(* other character is an atom such as "x".                                 *)

COMMA == ","

NL == "\n"

QUOTE == "\""

SP == " "

\* most fields (comma- or newline-separated) in a generated text
MaxCells == 4

\* the fields the generated texts are made of: empty, white space, two
\* plain values and a quoted value after a blank
CsvFields == { <<>>, <<SP>>, <<"x">>, <<"y">>, <<SP, QUOTE, "x", QUOTE>> }

\* the text of n fields with the separators between them
RECURSIVE JoinCells(_, _, _)
JoinCells(cells, seps, n) ==
    IF n = 1 THEN cells[1]
    ELSE JoinCells(cells, seps, n - 1) \o <<seps[n - 1]>> \o cells[n]

\* "name,qty\nWidget,5\nGadget,2"
ExampleCsv ==
    <<"name", COMMA, "qty", NL, "Widget", COMMA, "5", NL, "Gadget", COMMA, "2">>

\* "name,qty\n"
HeaderOnlyCsv == <<"name", COMMA, "qty", NL>>

\* the file contents of SpecCsv
CsvTexts ==
    UNION { { JoinCells(cells, seps, n) :
                cells \in [1..n -> CsvFields], seps \in [1..(n - 1) -> {COMMA, NL}] } :
            n \in 1..MaxCells }
    \cup {ExampleCsv, HeaderOnlyCsv}

\* String.prototype.split(sep) for a one-character separator
RECURSIVE Split(_, _)
Split(str, sep) ==
    IF \A i \in 1..Len(str) : str[i] # sep
    THEN <<str>>
    ELSE LET i == CHOOSE k \in 1..Len(str) :
                      str[k] = sep /\ \A j \in 1..(k - 1) : str[j] # sep
         IN  <<SubSeq(str, 1, i - 1)>> \o Split(SubSeq(str, i + 1, Len(str)), sep)

\* String.prototype.trim()
RECURSIVE Trim(_)
Trim(str) ==
    IF str = <<>> THEN str
    ELSE IF Head(str) = SP THEN Trim(Tail(str))
    ELSE IF str[Len(str)] = SP THEN Trim(SubSeq(str, 1, Len(str) - 1))
    ELSE str

\* replace(/"/g, '')
StripQuotes(str) == SelectSeq(str, LAMBDA c : c # QUOTE)

\* line.split(',').map(v => v.trim().replace(/"/g, ''))
CleanFields(line) ==
    LET raw == Split(line, COMMA)
    IN  [i \in 1..Len(raw) |-> StripQuotes(Trim(raw[i]))]

\* row[header] = value on the object row
SetKey(row, header, value) ==
    [h \in DOMAIN row \cup {header} |-> IF h = header THEN value ELSE row[h]]

\* variant of the forEach that keeps the first value of a header name
RECURSIVE BuildRowFirstWins(_, _, _, _)
BuildRowFirstWins(headers, values, index, row) ==
    IF index > Len(headers) THEN row
    ELSE BuildRowFirstWins(headers, values, index + 1,
             IF headers[index] \in DOMAIN row THEN row
             ELSE SetKey(row, headers[index],
                         IF index <= Len(values) THEN values[index] ELSE <<>>))

\* headers.forEach((header, index) => { row[header] = values[index] || '' }),
\* from position index on
RECURSIVE BuildRow(_, _, _, _)
BuildRow(headers, values, index, row) ==
    IF index > Len(headers) THEN row
    ELSE BuildRow(headers, values, index + 1,
             SetKey(row, headers[index],
                    IF index <= Len(values) /\ values[index] # <<>>
                    THEN values[index] ELSE <<>>))

\* const row = {}
EmptyRow == [h \in {} |-> <<>>]

\* variant of the loop that does not test lines[i].trim()
RECURSIVE ParseLinesKeepBlank(_, _, _, _)
ParseLinesKeepBlank(lines, headers, i, data) ==
    IF i > Len(lines) THEN data
    ELSE ParseLinesKeepBlank(lines, headers, i + 1,
             Append(data, BuildRow(headers, CleanFields(lines[i]), 1, EmptyRow)))

\* for (let i = ...; i < lines.length; i++) if (lines[i].trim()) data.push(row),
\* from line i on (lines are numbered from 1 here)
RECURSIVE ParseLines(_, _, _, _)
ParseLines(lines, headers, i, data) ==
    IF i > Len(lines) THEN data
    ELSE ParseLines(lines, headers, i + 1,
             IF Trim(lines[i]) # <<>>
             THEN Append(data, BuildRow(headers, CleanFields(lines[i]), 1, EmptyRow))
             ELSE data)

\* the parse of reader.onload: csvContent to data
ParseCsv(text) ==
    LET lines == Split(text, NL)
        headers == CleanFields(lines[1])
    IN  ParseLines(lines, headers, 2, <<>>)

\* a file has been read: its content is e.target.result
FileLoaded ==
    /\ csvText = <<>>
    /\ ~ csvDone
    /\ \E text \in CsvTexts :
           /\ csvText' = text
           /\ UNCHANGED <<csvDone, csvRows, notCsv>>

\* the parse loop of reader.onload
ParseFile ==
    /\ ~ csvDone
    /\ csvRows' = ParseCsv(csvText)
    /\ csvDone' = TRUE
    /\ UNCHANGED <<csvText, notCsv>>

NextCsv ==
    \/ FileLoaded
    \/ ParseFile

SpecCsv == Init /\ [][NextCsv]_vars

(* ---- the CSV upload of the import page (ImportExport.handleFileUpload) ---- *)

\* most files selected in a run
MaxUploads == 2

\* the files the user selects
ImportFiles == {ExampleCsv, HeaderOnlyCsv}

\* data of reader.onload for each of the files: ParseCsv, tabulated
ParsedFiles == [text \in ImportFiles |-> ParseCsv(text)]

\* the state a component renders after an event handler: of the values the
\* handler set in turn, the last one
Committed(sets) == sets[Len(sets)]

\* the values handleFileUpload sets importing to: setImporting(true) at the
\* start, setImporting(false) in the finally block that runs when
\* reader.readAsText(file) has returned
ImportingSets == <<TRUE, FALSE>>

\* the options of the import type select
ImportTypes == {"products", "orders"}

\* options of the supplier type select (two of the eight)
SupplierTypes == {"cj_dropshipping", "dsers"}

\* what the backend answers a POST it accepts with: a result summary or an
\* error message
ResponseKinds == {"summary", "message"}

\* no request sent
NoPost == [endpoint |-> "", supplier_type |-> "", key |-> "", rows |-> <<>>]

\* event.target.files[0] with a reader started on it; reader.onload closes
\* over the importType and supplierType of the render that made the handler
StartedRead(text, type, supplier) ==
    [text |-> text, phase |-> "reading", posts |-> 0, rows |-> <<>>,
     importType |-> type, supplierType |-> supplier, post |-> NoPost,
     response |-> "none"]

\* variant of the endpoint choice that always imports products
EndpointAlwaysProducts(type) == "/import/products"

\* importType === 'products' ? '/import/products' : '/import/orders'
Endpoint(type) == IF type = "products" THEN "/import/products" ELSE "/import/orders"

\* axios.post(`${API}${endpoint}`, { supplier_type: supplierType, [importType]: data })
ImportPost(upload, data) ==
    [endpoint |-> Endpoint(upload.importType),
     supplier_type |-> upload.supplierType,
     key |-> upload.importType,
     rows |-> data]

\* variant of reader.onload that sends nothing when the file has no row
OnLoadSkipsEmpty(upload) ==
    IF ParsedFiles[upload.text] = <<>>
    THEN [upload EXCEPT !.phase = "done"]
    ELSE [upload EXCEPT !.phase = "posting", !.rows = ParsedFiles[upload.text],
                        !.post = ImportPost(upload, ParsedFiles[upload.text]),
                        !.posts = upload.posts + 1]

\* reader.onload up to its await: the parse, then axios.post(endpoint, payload)
OnLoad(upload) ==
    [upload EXCEPT !.phase = "posting", !.rows = ParsedFiles[upload.text],
                   !.post = ImportPost(upload, ParsedFiles[upload.text]),
                   !.posts = upload.posts + 1]

\* uploads in a phase
InPhase(phase) == { u \in 1..Len(uploads) : uploads[u].phase = phase }

\* handleFileUpload, from the change event to its return
SelectFile ==
    \E text \in ImportFiles :
        /\ ~ importing
        /\ Len(uploads) < MaxUploads
        /\ importing' = Committed(ImportingSets)
        /\ importResults' = [kind |-> "null", upload |-> 0]
        /\ uploads' = Append(uploads, StartedRead(text, importType, supplierType))
        /\ UNCHANGED <<rejections, importType, supplierType, notImport>>

\* the import type select: setImportType(e.target.value)
SetImportType ==
    \E type \in ImportTypes \ {importType} :
        /\ importType' = type
        /\ UNCHANGED <<importing, importResults, uploads, rejections, supplierType, notImport>>

\* the supplier type select: setSupplierType(e.target.value)
SetSupplierType ==
    \E supplier \in SupplierTypes \ {supplierType} :
        /\ supplierType' = supplier
        /\ UNCHANGED <<importing, importResults, uploads, rejections, importType, notImport>>

\* the reader fires load: reader.onload runs up to its await
ReadCompletes ==
    \E u \in InPhase("reading") :
        /\ uploads' = [uploads EXCEPT ![u] = OnLoad(uploads[u])]
        /\ UNCHANGED <<importing, importResults, rejections, importType, supplierType, notImport>>

\* the reader fires error: no handler is set
ReadFails ==
    \E u \in InPhase("reading") :
        /\ uploads' = [uploads EXCEPT ![u].phase = "readError"]
        /\ UNCHANGED <<importing, importResults, rejections, importType, supplierType, notImport>>

\* the POST resolves: setImportResults(response.data)
PostResolves ==
    \E u \in InPhase("posting"), data \in ResponseKinds :
        /\ uploads' = [uploads EXCEPT ![u].phase = "done", ![u].response = data]
        /\ importResults' = [kind |-> data, upload |-> u]
        /\ UNCHANGED <<importing, rejections, importType, supplierType, notImport>>

\* the POST rejects: the await throws in reader.onload, outside any try
\* block, and the promise of reader.onload rejects
PostRejects ==
    \E u \in InPhase("posting") :
        /\ uploads' = [uploads EXCEPT ![u].phase = "failed"]
        /\ rejections' = rejections + 1
        /\ UNCHANGED <<importing, importResults, importType, supplierType, notImport>>

NextImport ==
    \/ SelectFile
    \/ SetImportType
    \/ SetSupplierType
    \/ ReadCompletes
    \/ ReadFails
    \/ PostResolves
    \/ PostRejects

SpecImport == Init /\ [][NextImport]_vars

\* the steps of uploads made with the two selects left as they are
NextUpload ==
    \/ SelectFile
    \/ ReadCompletes
    \/ ReadFails
    \/ PostResolves
    \/ PostRejects

\* uploads under the default selects; a reader that can fire load does fire it
SpecImportFair == Init /\ [][NextUpload]_vars /\ WF_vars(ReadCompletes)

(* ---- the supplier page (SupplierManagement) ---- *)

\* most suppliers the backend holds
MaxSuppliers == 1

\* most requests of the page in flight at once
MaxCalls == 2

SupplierIds == 1..MaxSuppliers

\* the names typed into the name input
SupplierNames == {"Acme"}

\* the texts of the settings textarea: empty, an object, a broken object
SettingsTexts == {"", "{}", "{"}

\* JSON.parse(text) returns a value for these texts and throws for the others
JsonTexts == {"{}"}

\* variant of the settings conversion that parses the text as it is
SettingsParsedAsTyped(settings) ==
    settings = "object" \/ settings \in JsonTexts

\* typeof formData.settings === 'string' ? JSON.parse(formData.settings || '{}')
\* : formData.settings does not throw
SettingsParsed(settings) ==
    \/ settings = "object"
    \/ (IF settings = "" THEN "{}" ELSE settings) \in JsonTexts

\* the request handleSubmit issues: PUT for a supplier being edited, else POST
SaveCall(editing) ==
    IF editing # 0 THEN [kind |-> "put", id |-> editing]
    ELSE [kind |-> "post", id |-> 0]

\* the sequence without its i-th element
Without(seq, i) == SubSeq(seq, 1, i - 1) \o SubSeq(seq, i + 1, Len(seq))

\* the history of a step: a submit or the end of a save is recorded with the
\* state before it
FormStep(kind, method, target) ==
    IF kind \in {"invalid", "sent", "saved", "saveFailed"}
    THEN [kind |-> kind, openedBy |-> openedBy, method |-> method, target |-> target,
          showForm |-> showForm, editingSupplier |-> editingSupplier,
          formData |-> formData, requests |-> requests]
    ELSE [NoFormStep EXCEPT !.kind = kind]

\* the '+ Add Supplier' button
OpenAdd ==
    /\ showForm' = TRUE
    /\ editingSupplier' = 0
    /\ formData' = BlankForm
    /\ openedBy' = "add"
    /\ lastForm' = FormStep("open", "", 0)
    /\ UNCHANGED <<suppliers, backend, requests, notSupplier>>

\* the 'Add First Supplier' button, shown while the list is empty
OpenAddFirst ==
    /\ suppliers = {}
    /\ showForm' = TRUE
    /\ openedBy' = IF showForm THEN openedBy ELSE "addFirst"
    /\ lastForm' = FormStep("open", "", 0)
    /\ UNCHANGED <<suppliers, backend, editingSupplier, formData, requests, notSupplier>>

\* handleEdit(supplier): the Edit button of a listed supplier
HandleEdit ==
    \E supplier \in suppliers :
        /\ editingSupplier' = supplier
        /\ formData' = [name |-> "Acme", settings |-> "{}"]
        /\ showForm' = TRUE
        /\ openedBy' = "edit"
        /\ lastForm' = FormStep("open", "", 0)
        /\ UNCHANGED <<suppliers, backend, requests, notSupplier>>

\* the Cancel button of the form
Cancel ==
    /\ showForm
    /\ showForm' = FALSE
    /\ openedBy' = "none"
    /\ lastForm' = FormStep("cancel", "", 0)
    /\ UNCHANGED <<suppliers, backend, editingSupplier, formData, requests, notSupplier>>

\* the name input: setFormData({...formData, name: e.target.value})
TypeName ==
    /\ showForm
    /\ \E name \in SupplierNames \ {formData.name} :
           formData' = [formData EXCEPT !.name = name]
    /\ lastForm' = FormStep("type", "", 0)
    /\ UNCHANGED <<suppliers, backend, showForm, editingSupplier, requests, openedBy,
                   notSupplier>>

\* the settings textarea: setFormData({...formData, settings: e.target.value})
TypeSettings ==
    /\ showForm
    /\ \E text \in SettingsTexts \ {formData.settings} :
           formData' = [formData EXCEPT !.settings = text]
    /\ lastForm' = FormStep("type", "", 0)
    /\ UNCHANGED <<suppliers, backend, showForm, editingSupplier, requests, openedBy,
                   notSupplier>>

\* handleSubmit with settings that JSON.parse rejects: the catch block logs
SubmitInvalid ==
    /\ showForm
    /\ formData.name # ""
    /\ ~ SettingsParsed(formData.settings)
    /\ lastForm' = FormStep("invalid", "", 0)
    /\ UNCHANGED <<suppliers, backend, showForm, editingSupplier, formData, requests,
                   openedBy, notSupplier>>

\* handleSubmit up to its await: the PUT or POST is issued
SubmitSend ==
    /\ showForm
    /\ formData.name # ""
    /\ SettingsParsed(formData.settings)
    /\ Len(requests) < MaxCalls
    /\ requests' = Append(requests, SaveCall(editingSupplier))
    /\ lastForm' = FormStep("sent", SaveCall(editingSupplier).kind,
                            SaveCall(editingSupplier).id)
    /\ UNCHANGED <<suppliers, backend, showForm, editingSupplier, formData, openedBy,
                   notSupplier>>

\* the PUT or POST resolves: the form is reset and closed, fetchSuppliers()
SaveResolves ==
    \E i \in 1..Len(requests) :
        /\ requests[i].kind \in {"put", "post"}
        /\ \/ /\ requests[i].kind = "put"
              /\ requests[i].id \in backend
              /\ backend' = backend
           \/ /\ requests[i].kind = "post"
              /\ \E id \in SupplierIds \ backend : backend' = backend \cup {id}
        /\ formData' = BlankForm
        /\ showForm' = FALSE
        /\ editingSupplier' = 0
        /\ openedBy' = "none"
        /\ requests' = Append(Without(requests, i), [kind |-> "get", id |-> 0])
        /\ lastForm' = FormStep("saved", requests[i].kind, requests[i].id)
        /\ UNCHANGED <<suppliers, notSupplier>>

\* the PUT or POST rejects: the catch block logs
SaveRejects ==
    \E i \in 1..Len(requests) :
        /\ requests[i].kind \in {"put", "post"}
        /\ requests' = Without(requests, i)
        /\ lastForm' = FormStep("saveFailed", requests[i].kind, requests[i].id)
        /\ UNCHANGED <<suppliers, backend, showForm, editingSupplier, formData, openedBy,
                       notSupplier>>

\* handleDelete(supplier.id), confirmed: the DELETE is issued
HandleDelete ==
    \E supplier \in suppliers :
        /\ Len(requests) < MaxCalls
        /\ requests' = Append(requests, [kind |-> "delete", id |-> supplier])
        /\ lastForm' = FormStep("delete", "", 0)
        /\ UNCHANGED <<suppliers, backend, showForm, editingSupplier, formData, openedBy,
                       notSupplier>>

\* the DELETE resolves: fetchSuppliers()
DeleteResolves ==
    \E i \in 1..Len(requests) :
        /\ requests[i].kind = "delete"
        /\ backend' = backend \ {requests[i].id}
        /\ requests' = Append(Without(requests, i), [kind |-> "get", id |-> 0])
        /\ lastForm' = FormStep("deleted", "", 0)
        /\ UNCHANGED <<suppliers, showForm, editingSupplier, formData, openedBy,
                       notSupplier>>

\* the DELETE rejects: the catch block logs
DeleteRejects ==
    \E i \in 1..Len(requests) :
        /\ requests[i].kind = "delete"
        /\ requests' = Without(requests, i)
        /\ lastForm' = FormStep("deleteFailed", "", 0)
        /\ UNCHANGED <<suppliers, backend, showForm, editingSupplier, formData,
                       openedBy, notSupplier>>

\* the GET of fetchSuppliers resolves: setSuppliers(response.data)
FetchResolves ==
    \E i \in 1..Len(requests) :
        /\ requests[i].kind = "get"
        /\ suppliers' = backend
        /\ requests' = Without(requests, i)
        /\ lastForm' = FormStep("fetched", "", 0)
        /\ UNCHANGED <<backend, showForm, editingSupplier, formData, openedBy,
                       notSupplier>>

\* the GET rejects: the catch block logs
FetchRejects ==
    \E i \in 1..Len(requests) :
        /\ requests[i].kind = "get"
        /\ requests' = Without(requests, i)
        /\ lastForm' = FormStep("fetchFailed", "", 0)
        /\ UNCHANGED <<suppliers, backend, showForm, editingSupplier, formData,
                       openedBy, notSupplier>>

NextSupplier ==
    \/ OpenAdd
    \/ OpenAddFirst
    \/ HandleEdit
    \/ Cancel
    \/ TypeName
    \/ TypeSettings
    \/ SubmitInvalid
    \/ SubmitSend
    \/ SaveResolves
    \/ SaveRejects
    \/ HandleDelete
    \/ DeleteResolves
    \/ DeleteRejects
    \/ FetchResolves
    \/ FetchRejects

SpecSupplier == Init /\ [][NextSupplier]_vars

(* ---- the routes and the admin sidebar ---- *)

\* most routes opened in a run
MaxTrail == 6

\* the path of every <Route> of App
RoutePaths ==
    {"/", "/shop", "/cart", "/checkout", "/order-success",
     "/admin", "/admin/products", "/admin/orders", "/admin/analytics"}

\* the routes whose element is wrapped in DashboardLayout
AdminRoutes == {"/admin", "/admin/products", "/admin/orders", "/admin/analytics"}

\* the href of every entry of DashboardLayout's navigation
SidebarLinks ==
    {"/admin", "/admin/products", "/admin/orders", "/admin/suppliers",
     "/admin/import", "/admin/analytics"}

\* what <Routes> renders for a path: the element of the route with that
\* path, nothing when no route matches
Rendered(path) == IF path \in RoutePaths THEN path ELSE "nothing"

\* the admin panel is opened by its address
OpenAdmin ==
    /\ location \notin AdminRoutes
    /\ Len(trail) < MaxTrail
    /\ location' = "/admin"
    /\ trail' = Append(trail, "/admin")
    /\ UNCHANGED notNav

\* a <Link> of the sidebar is followed on a page that shows the sidebar
FollowSidebar ==
    /\ location \in AdminRoutes
    /\ Len(trail) < MaxTrail
    /\ \E href \in SidebarLinks \ {location} :
           /\ location' = href
           /\ trail' = Append(trail, href)
    /\ UNCHANGED notNav

\* the 'View Store' link below the sidebar
ViewStore ==
    /\ location \in AdminRoutes
    /\ Len(trail) < MaxTrail
    /\ location' = "/shop"
    /\ trail' = Append(trail, "/shop")
    /\ UNCHANGED notNav

NextAdmin ==
    \/ OpenAdmin
    \/ FollowSidebar
    \/ ViewStore

SpecAdmin == Init /\ [][NextAdmin]_vars

TypeOK ==
    /\ \A i \in 1..Len(cartItems) :
          /\ cartItems[i].id \in ProductIds
          /\ cartItems[i].quantity \in 0..MaxQty
    /\ addsOnly \in BOOLEAN

(* ---- the hero slideshow of the premium storefront ---- *)

\* heroSlides.length
SlideCount == 3

\* most setCurrentSlide calls between two renders
MaxSlideUpdates == 2

\* the % of the language: the result has the sign of the dividend
Remainder(a, n) == IF a >= 0 THEN a % n ELSE 0 - ((0 - a) % n)

\* an updater that steps forward without wrapping
NextIndexNoWrap(prev) == prev + 1

\* (prev) => (prev + 1) % heroSlides.length
NextIndex(prev) == Remainder(prev + 1, SlideCount)

\* (prev) => (prev - 1 + heroSlides.length) % heroSlides.length
PrevIndex(prev) == Remainder(prev - 1 + SlideCount, SlideCount)

\* an argument of setCurrentSlide: one of the two updaters or an index
SlideUpdate(op, index, by) == [op |-> op, index |-> index, by |-> by]

\* what React makes of one queued update
ApplySlide(update, prev) ==
    CASE update.op = "next" -> NextIndex(prev)
      [] update.op = "prev" -> PrevIndex(prev)
      [] update.op = "set" -> update.index

\* the queue is applied in the order of the calls
RECURSIVE ApplySlides(_, _)
ApplySlides(updates, prev) ==
    IF updates = <<>> THEN prev
    ELSE ApplySlides(Tail(updates), ApplySlide(Head(updates), prev))

\* the right arrow
nextSlide ==
    /\ Len(slideUpdates) < MaxSlideUpdates
    /\ slideUpdates' = Append(slideUpdates, SlideUpdate("next", 0, "arrow"))
    /\ UNCHANGED <<currentSlide, lastSlides, notSlide>>

\* the left arrow
prevSlide ==
    /\ Len(slideUpdates) < MaxSlideUpdates
    /\ slideUpdates' = Append(slideUpdates, SlideUpdate("prev", 0, "arrow"))
    /\ UNCHANGED <<currentSlide, lastSlides, notSlide>>

\* one of the dots below the slides
SelectSlide ==
    /\ Len(slideUpdates) < MaxSlideUpdates
    /\ \E index \in 0..(SlideCount - 1) :
           slideUpdates' = Append(slideUpdates, SlideUpdate("set", index, "dot"))
    /\ UNCHANGED <<currentSlide, lastSlides, notSlide>>

\* setInterval(nextSlide, 6000) fires
TimerTick ==
    /\ Len(slideUpdates) < MaxSlideUpdates
    /\ slideUpdates' = Append(slideUpdates, SlideUpdate("next", 0, "timer"))
    /\ UNCHANGED <<currentSlide, lastSlides, notSlide>>

\* React renders the storefront with the queued updates applied
RenderSlides ==
    /\ slideUpdates # <<>>
    /\ currentSlide' = ApplySlides(slideUpdates, currentSlide)
    /\ lastSlides' = [before |-> currentSlide, applied |-> slideUpdates]
    /\ slideUpdates' = <<>>
    /\ UNCHANGED notSlide

NextSlides ==
    \/ nextSlide
    \/ prevSlide
    \/ SelectSlide
    \/ TimerTick
    \/ RenderSlides

SpecSlides == Init /\ [][NextSlides]_vars

(* ---- helpers of the properties ---- *)

\* the sum of amount[i] over the positions i of a set
RECURSIVE SumOver(_, _)
SumOver(S, amount) ==
    IF S = {} THEN 0
    ELSE LET i == CHOOSE k \in S : TRUE
         IN  amount[i] + SumOver(S \ {i}, amount)

Positions(items) == 1..Len(items)

(* ---- properties ---- *)

\* C1: in every reachable cart no two lines have the same product id.
C1_UniqueProductIds ==
    \A i, j \in Positions(cartItems) :
        cartItems[i].id = cartItems[j].id => i = j

\* C1 witness: addToCart was called for a product that already had a line,
\* in a cart of several lines.
C1_Witness ==
    /\ lastOp.op = "add"
    /\ Has(prevCart, lastOp.id)
    /\ Len(cartItems) >= 2

\* C2: every line of every reachable cart has a positive quantity (an
\* operation that would leave a line at zero or below removes it instead).
C2_QuantitiesPositive ==
    \A i \in Positions(cartItems) : cartItems[i].quantity > 0

\* C3: addToCart(product, q) on a cart that has a line for product.id adds q
\* to that line and creates no line; on a cart without it, it appends one
\* line of quantity q; every other line is unchanged.
C3_AddItemEffect ==
    lastOp.op = "add" =>
        IF Has(prevCart, lastOp.id)
        THEN /\ Len(cartItems) = Len(prevCart)
             /\ \A i \in Positions(prevCart) :
                    IF prevCart[i].id = lastOp.id
                    THEN cartItems[i] = [id |-> prevCart[i].id,
                                         price |-> prevCart[i].price,
                                         quantity |-> prevCart[i].quantity + lastOp.quantity]
                    ELSE cartItems[i] = prevCart[i]
        ELSE /\ Len(cartItems) = Len(prevCart) + 1
             /\ \A i \in Positions(prevCart) : cartItems[i] = prevCart[i]
             /\ cartItems[Len(cartItems)] = [id |-> lastOp.id,
                                             price |-> lastOp.price,
                                             quantity |-> lastOp.quantity]

\* C3 witness: addToCart(p, 2) on the empty cart, then addToCart(p, 3): one
\* line of quantity 5.
C3_Witness ==
    /\ lastOp.op = "add"
    /\ lastOp.quantity = 3
    /\ Len(prevCart) = 1
    /\ prevCart[1].id = lastOp.id
    /\ prevCart[1].quantity = 2
    /\ addsOnly
    /\ sumAdded = 5
    /\ Len(cartItems) = 1
    /\ cartItems[1].quantity = 5

\* C4: after any sequence of addToCart calls on an empty cart, getTotalItems()
\* is the sum of the quantities passed; it is 0 for the empty cart.
C4_TotalItemsIsSumAdded ==
    /\ addsOnly => getTotalItems(cartItems) = sumAdded
    /\ cartItems = <<>> => getTotalItems(cartItems) = 0

\* C4 witness: only addToCart calls so far, the last one merged into an
\* existing line of a cart with several lines.
C4_Witness ==
    /\ addsOnly
    /\ lastOp.op = "add"
    /\ Has(prevCart, lastOp.id)
    /\ Len(cartItems) >= 2
    /\ sumAdded >= 3
    /\ getTotalItems(cartItems) = sumAdded

\* C5: removeFromCart(id) deletes the line with that id and keeps every other
\* line, in the same relative order; without such a line the cart is unchanged.
C5_RemoveItemEffect ==
    lastOp.op = "remove" =>
        IF ~ Has(prevCart, lastOp.id)
        THEN cartItems = prevCart
        ELSE \E k \in Positions(prevCart) :
                /\ prevCart[k].id = lastOp.id
                /\ Len(cartItems) = Len(prevCart) - 1
                /\ \A i \in Positions(cartItems) :
                       cartItems[i] = IF i < k THEN prevCart[i] ELSE prevCart[i + 1]

\* C5 witness: the middle line of a three-line cart was removed.
C5_Witness ==
    /\ lastOp.op = "remove"
    /\ Len(prevCart) = 3
    /\ prevCart[2].id = lastOp.id
    /\ Len(cartItems) = 2

\* C6: updateQuantity(id, q) with q <= 0 gives the same cart as
\* removeFromCart(id): the line is gone and getTotalItems() no longer counts it.
C6_NonPositiveQuantityRemoves ==
    (lastOp.op = "update" /\ lastOp.quantity <= 0) =>
        /\ cartItems = removeFromCart(prevCart, lastOp.id)
        /\ ~ Has(cartItems, lastOp.id)
        /\ getTotalItems(cartItems)
              = getTotalItems(prevCart) - QuantityOf(prevCart, lastOp.id)

\* C6 witness: updateQuantity(id, 0) on a cart of several lines, one of them
\* for id with a positive quantity.
C6_Witness ==
    /\ lastOp.op = "update"
    /\ lastOp.quantity = 0
    /\ QuantityOf(prevCart, lastOp.id) > 0
    /\ Len(prevCart) >= 2
    /\ Len(cartItems) = Len(prevCart) - 1

\* C7: updateQuantity(id, q) with q > 0 sets the quantity of the line with
\* that id to q and changes nothing else; without such a line the cart is
\* unchanged and no line is created.
C7_PositiveQuantityReplaces ==
    (lastOp.op = "update" /\ lastOp.quantity > 0) =>
        /\ Len(cartItems) = Len(prevCart)
        /\ \A i \in Positions(prevCart) :
               IF prevCart[i].id = lastOp.id
               THEN cartItems[i] = [id |-> prevCart[i].id,
                                    price |-> prevCart[i].price,
                                    quantity |-> lastOp.quantity]
               ELSE cartItems[i] = prevCart[i]
        /\ (~ Has(prevCart, lastOp.id) => cartItems = prevCart)

\* C7 witness: a positive quantity replaced a different positive quantity in
\* a cart of several lines.
C7_Witness ==
    /\ lastOp.op = "update"
    /\ lastOp.quantity > 0
    /\ QuantityOf(prevCart, lastOp.id) > 0
    /\ QuantityOf(prevCart, lastOp.id) # lastOp.quantity
    /\ QuantityOf(cartItems, lastOp.id) = lastOp.quantity
    /\ Len(cartItems) >= 2

\* C8: getTotalPrice() is the sum over the lines of price times quantity; 0
\* for the empty cart, 30 after addToCart({id: "a", price: 10}, 3) on it.
C8_TotalPriceIsSumOfLines ==
    /\ getTotalPrice(cartItems)
          = SumOver(Positions(cartItems),
                    [i \in Positions(cartItems) |->
                        cartItems[i].price * cartItems[i].quantity])
    /\ cartItems = <<>> => getTotalPrice(cartItems) = 0
    /\ (prevCart = <<>> /\ lastOp = [op |-> "add", id |-> "a", price |-> 10,
                                     quantity |-> 3])
          => getTotalPrice(cartItems) = 30

\* C8 witness: the cart after addToCart({id: "a", price: 10}, 3) on the empty cart.
C8_Witness ==
    /\ prevCart = <<>>
    /\ lastOp = [op |-> "add", id |-> "a", price |-> 10, quantity |-> 3]
    /\ getTotalPrice(cartItems) = 30

\* C9: clearCart() leaves the cart without lines: getTotalItems() and
\* getTotalPrice() are 0 right after it.
C9_ClearEmptiesCart ==
    lastOp.op = "clear" =>
        /\ cartItems = <<>>
        /\ getTotalItems(cartItems) = 0
        /\ getTotalPrice(cartItems) = 0

\* C9 witness: clearCart() was called on a cart of several lines.
C9_Witness ==
    /\ lastOp.op = "clear"
    /\ Len(prevCart) >= 2
    /\ getTotalItems(prevCart) > 0
    /\ cartItems = <<>>

\* C10: the price of a line is the product's price when the line was created;
\* a later addToCart with another price and updateQuantity leave it, and
\* getTotalPrice() is computed with it.
C10_PriceCapturedAtFirstAdd ==
    /\ \A i \in Positions(cartItems) :
           cartItems[i].price = firstPrice[cartItems[i].id]
    /\ getTotalPrice(cartItems)
          = SumOver(Positions(cartItems),
                    [i \in Positions(cartItems) |->
                        firstPrice[cartItems[i].id] * cartItems[i].quantity])

\* C10 witness: addToCart added a positive quantity to an existing line with
\* a product object whose price differs from the one the line was created with.
C10_Witness ==
    /\ lastOp.op = "add"
    /\ Has(prevCart, lastOp.id)
    /\ lastOp.quantity > 0
    /\ lastOp.price # firstPrice[lastOp.id]
    /\ getTotalPrice(cartItems) > getTotalPrice(prevCart)

\* position of the line with this id
IndexOf(items, id) == CHOOSE i \in 1..Len(items) : items[i].id = id

\* C11: the cart keeps insertion order: a new line is appended at the end,
\* and addToCart on an existing id, updateQuantity and removeFromCart keep the
\* relative order of the lines that remain.
C11_InsertionOrderKept ==
    lastOp.op \in {"add", "remove", "update"} =>
        /\ \A j \in Positions(cartItems) :
               ~ Has(prevCart, cartItems[j].id) => j = Len(cartItems)
        /\ \A i, j \in Positions(cartItems) :
               (i < j /\ Has(prevCart, cartItems[i].id) /\ Has(prevCart, cartItems[j].id))
                   => IndexOf(prevCart, cartItems[i].id) < IndexOf(prevCart, cartItems[j].id)

\* C11 witness: a line for a new product was added to a cart of two lines.
C11_Witness ==
    /\ lastOp.op = "add"
    /\ Len(prevCart) = 2
    /\ ~ Has(prevCart, lastOp.id)
    /\ Len(cartItems) = 3
    /\ cartItems[3].id = lastOp.id

\* C12: the cart operations take effect in call order without a lost update:
\* once the calls made so far are rendered, also several made before one
\* render, the cart is the result of applying them one at a time in call order.
C12_CallsSerialized ==
    pending = <<>> => cartItems = expected

\* C12 witness: one render applied several updates and left a cart of two lines.
C12_Witness ==
    /\ pending = <<>>
    /\ committed >= 2
    /\ Len(cartItems) = 2
    /\ cartItems = expected

C14_OneOrderCallPerLine ==
    \A n \in 1..Len(subs) :
        LET run == subs[n]
            calls == run.posts
        IN  /\ Len(calls) <= Len(run.items)
            /\ \A k \in 1..Len(calls) :
                   /\ calls[k].line = k
                   /\ calls[k].body.product_id = run.items[k].id
                   /\ calls[k].body.quantity = run.items[k].quantity
                   /\ calls[k].body.total_amount
                         = run.items[k].price * run.items[k].quantity
                   /\ k < Len(calls) => calls[k].state = "ok"
            /\ run.status = "succeeded" =>
                   /\ Len(calls) = Len(run.items)
                   /\ \A k \in 1..Len(calls) : calls[k].state = "ok"

\* C14 witness: a run over a cart of two lines, one of quantity 2, has succeeded.
C14_Witness ==
    \E n \in 1..Len(subs) :
        /\ subs[n].status = "succeeded"
        /\ Len(subs[n].items) = 2
        /\ subs[n].items[2].quantity = 2
        /\ Len(subs[n].posts) = 2

\* C15: when the call for line N of a run fails, the orders placed by the
\* run are those of its first N-1 lines, no call follows, the failure
\* message is shown, and the cart and the page stay as they were.
C15_FailureStopsCheckout ==
    /\ \A n \in 1..Len(subs) :
           subs[n].status = "failed" =>
               LET calls == subs[n].posts
                   N == subs[n].idx
               IN  /\ Len(calls) = N
                   /\ calls[N].state = "failed"
                   /\ { calls[k].line : k \in { j \in 1..N : calls[j].state = "ok" } }
                         = 1..(N - 1)
    /\ lastStep.kind = "failure" =>
           /\ subs[lastStep.sub].status = "failed"
           /\ alerts = lastStep.alerts + 1
           /\ cartItems = lastStep.cart
           /\ location = lastStep.location

\* C15 witness: the call for the second of three lines has just failed.
C15_Witness ==
    /\ lastStep.kind = "failure"
    /\ subs[lastStep.sub].idx = 2
    /\ Len(subs[lastStep.sub].items) = 3
    /\ Len(cartItems) = 3
    /\ location = "/checkout"

(* ---- the rows of a parsed file ---- *)

\* the lines of the file read
CsvLines == Split(csvText, NL)

\* a field as the rows hold it: trimmed, without double quotes
Cleaned(field) == StripQuotes(Trim(field))

\* the names of the header row
HeaderNames ==
    LET raw == Split(CsvLines[1], COMMA)
    IN  { Cleaned(raw[i]) : i \in 1..Len(raw) }

\* the numbers of the non-blank lines after the first
DataLines == { i \in 2..Len(CsvLines) : Trim(CsvLines[i]) # <<>> }

\* the k-th non-blank line after the first, in file order
DataLine(k) ==
    CsvLines[CHOOSE i \in DataLines : Cardinality({ j \in DataLines : j < i }) = k - 1]

\* the rows that stand for a data line
RowNumbers ==
    1..(IF Len(csvRows) < Cardinality(DataLines) THEN Len(csvRows)
        ELSE Cardinality(DataLines))

\* C19 (as stated): after the parse, every row maps the header at index i
\* (double quotes stripped) to the i-th comma-separated value of its line, to
\* the empty string when the line has no i-th value, and has no other key.
C19_RowsByPosition ==
    csvDone =>
        \A k \in RowNumbers :
            LET header == Split(CsvLines[1], COMMA)
                value == Split(DataLine(k), COMMA)
            IN  /\ \A i \in 1..Len(header) :
                       /\ StripQuotes(header[i]) \in DOMAIN csvRows[k]
                       /\ csvRows[k][StripQuotes(header[i])] =
                              (IF i <= Len(value) THEN value[i] ELSE <<>>)
                /\ DOMAIN csvRows[k] \subseteq
                       { StripQuotes(header[i]) : i \in 1..Len(header) }

\* C19 (amended): after the parse, every row has exactly the header names
\* (header fields trimmed, double quotes removed) as keys and maps a name to
\* the value, trimmed and without double quotes, at the last index where the
\* name stands in the header row, or to the empty string when the line has no
\* value at that index; values beyond the header count are in no row.
C19_RowsByLastPosition ==
    csvDone =>
        \A k \in RowNumbers :
            LET header == Split(CsvLines[1], COMMA)
                value == Split(DataLine(k), COMMA)
                last(h) == CHOOSE i \in 1..Len(header) :
                               /\ Cleaned(header[i]) = h
                               /\ \A j \in (i + 1)..Len(header) : Cleaned(header[j]) # h
            IN  /\ DOMAIN csvRows[k] = HeaderNames
                /\ \A h \in HeaderNames :
                       /\ \A c \in 1..Len(h) : h[c] # QUOTE
                       /\ csvRows[k][h] =
                              (IF last(h) <= Len(value) THEN Cleaned(value[last(h)])
                               ELSE <<>>)

\* a parsed line with a repeated header name, a quoted value and a missing value
C19_Witness ==
    /\ csvDone
    /\ csvText = <<"x", COMMA, "x", NL, SP, QUOTE, "x", QUOTE>>
    /\ csvRows = <<[h \in {<<"x">>} |-> <<>>]>>

\* C20: after the parse there is exactly one row per non-blank line after the
\* first, the rows stand in file order, a header-only or empty file gives no
\* row, and "name,qty\nWidget,5\nGadget,2" gives the two rows of Widget and
\* Gadget.
C20_OneRowPerDataLine ==
    csvDone =>
        /\ Len(csvRows) = Cardinality(DataLines)
        /\ \A k \in 1..Len(csvRows) :
               LET value == Split(DataLine(k), COMMA)
               IN  \A h \in DOMAIN csvRows[k] :
                       csvRows[k][h] # <<>> =>
                           \E i \in 1..Len(value) : Cleaned(value[i]) = csvRows[k][h]
        /\ DataLines = {} => csvRows = <<>>
        /\ csvText \in {<<>>, HeaderOnlyCsv} => csvRows = <<>>
        /\ csvText = ExampleCsv =>
               csvRows = << [h \in {<<"name">>, <<"qty">>} |->
                                IF h = <<"name">> THEN <<"Widget">> ELSE <<"5">>],
                            [h \in {<<"name">>, <<"qty">>} |->
                                IF h = <<"name">> THEN <<"Gadget">> ELSE <<"2">>] >>

\* C20 witness: a file of a header, a data line, a blank line and another
\* data line was parsed into two different rows.
C20_Witness ==
    /\ csvDone
    /\ Len(CsvLines) = 4
    /\ Trim(CsvLines[3]) = <<>>
    /\ Len(csvRows) = 2
    /\ csvRows[1] # csvRows[2]

(* ---- the import page ---- *)

\* uploads whose read or POST has not completed
InFlight == InPhase("reading") \cup InPhase("posting")

\* the progress of the u-th upload
PhaseOf(u) == IF u \in 1..Len(uploads) THEN uploads[u].phase ELSE "none"

\* C16: no backend call of the import page ends in a rejection that nothing
\* handles, and after a failed import POST the result on screen is an error.
C16_FailuresCaught ==
    /\ rejections = 0
    /\ InPhase("failed") # {} => importResults.kind = "error"

\* C17: while the read or the POST of an upload has not completed, importing
\* is true (the file input is disabled) and no other upload is in flight.
C17_SingleImportInFlight ==
    /\ InFlight # {} => importing
    /\ Cardinality(InFlight) <= 1

\* C18: every read started by the upload handler invokes its continuation
\* once the reader can complete, and a file whose continuation ran has had
\* its content parsed and exactly one POST issued; a file whose read is
\* pending or failed has had none.
C18_ReadInvokesContinuation ==
    /\ [](\A u \in 1..Len(uploads) :
              /\ uploads[u].phase \in {"posting", "done", "failed"} =>
                     uploads[u].posts = 1 /\ uploads[u].rows = ParseCsv(uploads[u].text)
              /\ uploads[u].phase \in {"reading", "readError"} => uploads[u].posts = 0)
    /\ \A u \in 1..MaxUploads :
           (PhaseOf(u) = "reading") ~> (PhaseOf(u) \in {"posting", "done", "failed", "readError"})

\* C18 witness: two reads ran at once and both continuations issued their
\* POST, one for a file with rows and one for a file without.
C18_Witness ==
    /\ Len(uploads) >= 2
    /\ uploads[1].phase = "posting" /\ uploads[1].posts = 1
    /\ uploads[2].phase = "posting" /\ uploads[2].posts = 1
    /\ uploads[1].rows = <<>> /\ Len(uploads[2].rows) = 2

\* C21: an upload sends its parsed rows to /import/products when the import
\* type selected with the file is products and to /import/orders when it is
\* orders, together with the supplier type selected with the file, and when
\* the backend answers, the answer (summary or error message) becomes the
\* displayed import result.
C21_RowsSentToSelectedEndpoint ==
    /\ [](\A u \in 1..Len(uploads) :
              uploads[u].posts = 1 =>
                  /\ uploads[u].importType = "products" =>
                         uploads[u].post.endpoint = "/import/products"
                  /\ uploads[u].importType = "orders" =>
                         uploads[u].post.endpoint = "/import/orders"
                  /\ uploads[u].post.supplier_type = uploads[u].supplierType
                  /\ uploads[u].post.key = uploads[u].importType
                  /\ uploads[u].post.rows = ParsedFiles[uploads[u].text])
    /\ [][ /\ Len(uploads') > Len(uploads) =>
                  /\ uploads'[Len(uploads')].importType = importType
                  /\ uploads'[Len(uploads')].supplierType = supplierType
           /\ \A u \in 1..Len(uploads) :
                  /\ Len(uploads') >= u
                  /\ uploads'[u].importType = uploads[u].importType
                  /\ uploads'[u].supplierType = uploads[u].supplierType
                  /\ (uploads[u].phase = "posting" /\ uploads'[u].phase = "done") =>
                         /\ uploads'[u].response \in ResponseKinds
                         /\ importResults' = [kind |-> uploads'[u].response, upload |-> u]
         ]_vars

\* C21 witness: a file selected under orders and dsers was posted to
\* /import/orders after both selects had been changed back, and the answer,
\* an error message, is displayed.
C21_Witness ==
    /\ Len(uploads) >= 1
    /\ uploads[1].importType = "orders" /\ uploads[1].supplierType = "dsers"
    /\ importType = "products" /\ supplierType = "cj_dropshipping"
    /\ uploads[1].phase = "done"
    /\ uploads[1].post.endpoint = "/import/orders"
    /\ Len(uploads[1].post.rows) = 2
    /\ importResults = [kind |-> "message", upload |-> 1]

\* C28: the import result on screen is null or the result of the most
\* recently selected file.
C28_ResultOfLatestFile ==
    importResults.kind # "null" => importResults.upload = Len(uploads)

(* ---- checkout attempts ---- *)

\* the lines of run n whose order call succeeded
PlacedLines(n) ==
    { subs[n].posts[k].body.product_id :
        k \in { j \in 1..Len(subs[n].posts) : subs[n].posts[j].state = "ok" } }

\* runs of handleSubmit whose loop has not ended
RunsInFlight == { n \in 1..Len(subs) : subs[n].status = "posting" }

\* C22: over the attempts made with one cart, a line whose order call
\* succeeded in an attempt that failed is not ordered again by another attempt.
C22_NoLineOrderedTwice ==
    \A n, m \in 1..Len(subs) :
        (n # m /\ subs[n].status = "failed") =>
            PlacedLines(n) \cap PlacedLines(m) = {}

\* C24: at most one run of the order loop is in flight, loading is true
\* while a run is in flight and false when none is.
C24_SingleSubmissionInFlight ==
    /\ Cardinality(RunsInFlight) <= 1
    /\ loading <=> RunsInFlight # {}

\* C25: no run of the order loop is made for an empty cart, and the checkout
\* page is not shown for an empty cart: the customer is sent to the cart page.
C25_EmptyCartRedirects ==
    /\ \A n \in 1..Len(subs) : subs[n].items # <<>>
    /\ location = "/checkout" => cartItems # <<>>

Fetches(reqs) == { i \in 1..Len(reqs) : reqs[i].kind = "get" }

\* the form, its data and the editing target are as before the last step
FormAsBefore ==
    /\ showForm = lastForm.showForm
    /\ formData = lastForm.formData
    /\ editingSupplier = lastForm.editingSupplier

\* C26: a submit of a form that was opened by '+ Add Supplier' or 'Add First
\* Supplier' issues POST /suppliers, never a PUT.
C26_AddFormCreates ==
    (lastForm.kind = "sent" /\ lastForm.openedBy \in {"add", "addFirst"}) =>
        lastForm.method = "post"

\* what every submit does, whatever the settings: a submit that fails to
\* parse or whose request fails leaves the form, and only a save that
\* succeeded resets and closes the form and refetches the list
SubmitOutcomes ==
    /\ lastForm.kind = "invalid" =>
           /\ FormAsBefore
           /\ showForm
           /\ requests = lastForm.requests
    /\ lastForm.kind = "sent" =>
           /\ FormAsBefore
           /\ Cardinality(Fetches(requests)) = Cardinality(Fetches(lastForm.requests))
    /\ lastForm.kind = "saveFailed" =>
           /\ FormAsBefore
           /\ Len(requests) = Len(lastForm.requests) - 1
           /\ Cardinality(Fetches(requests)) = Cardinality(Fetches(lastForm.requests))
    /\ lastForm.kind = "saved" =>
           /\ formData = BlankForm
           /\ ~ showForm
           /\ editingSupplier = 0
           /\ requests[Len(requests)].kind = "get"
           /\ Cardinality(Fetches(requests)) = Cardinality(Fetches(lastForm.requests)) + 1

\* C27 (as stated): a submit with a settings text that is not valid JSON
\* sends no request and leaves the form open, its data and the editing
\* target unchanged; only a successful save resets, closes and refetches.
C27_InvalidJsonSendsNothing ==
    /\ SubmitOutcomes
    /\ lastForm.kind = "sent" => lastForm.formData.settings \in {"object"} \cup JsonTexts

\* C27 (amended): a submit with a settings text that is not empty and not
\* valid JSON sends no request and leaves the form open, its data and the
\* editing target unchanged; an empty text is sent as the settings {}; only
\* a successful save resets, closes and refetches.
C27_UnparsableSettingsSendNothing ==
    /\ SubmitOutcomes
    /\ lastForm.kind = "sent" =>
           lastForm.formData.settings \in {"object", ""} \cup JsonTexts
    /\ lastForm.kind = "invalid" =>
           lastForm.formData.settings \notin {"object", ""} \cup JsonTexts

\* C27 witness: the form of a supplier being edited was submitted with the
\* settings text "{" while the list was being fetched.
C27_Witness ==
    /\ lastForm.kind = "invalid"
    /\ editingSupplier # 0
    /\ formData.settings = "{"
    /\ showForm
    /\ requests # <<>>

(* ---- the admin panel ---- *)

\* C29: following sidebar links never leads to a path for which the router
\* renders nothing: every page reached is the element of a route.
C29_SidebarLinksRendered ==
    Rendered(location) # "nothing"

(* ---- the slideshow ---- *)

\* the operations of the updates of the last render, in order
LastSlideOps == [i \in DOMAIN lastSlides.applied |-> lastSlides.applied[i].op]

\* C30: the slide index stays within 0..(number of slides - 1) under every
\* interleaving of the arrows, the dots and the timer; a render of one
\* nextSlide goes one slide forward and from the last slide to the first, a
\* render of one prevSlide goes one slide back and from the first slide to
\* the last, and nextSlide followed by prevSlide ends on the slide it began on.
C30_SlideIndexInRange ==
    /\ currentSlide \in 0..(SlideCount - 1)
    /\ lastSlides.before \in 0..(SlideCount - 1)
    /\ LastSlideOps = <<"next">> =>
           currentSlide =
               IF lastSlides.before = SlideCount - 1 THEN 0 ELSE lastSlides.before + 1
    /\ LastSlideOps = <<"prev">> =>
           currentSlide =
               IF lastSlides.before = 0 THEN SlideCount - 1 ELSE lastSlides.before - 1
    /\ LastSlideOps = <<"next", "prev">> => currentSlide = lastSlides.before

\* the timer advanced from the last slide and the left arrow went back to it
\* in one render
C30_Witness ==
    /\ lastSlides.before = SlideCount - 1
    /\ LastSlideOps = <<"next", "prev">>
    /\ lastSlides.applied[1].by = "timer"
    /\ currentSlide = SlideCount - 1
    /\ slideUpdates = <<>>

====
